---- MODULE Spec2Model ----
(***************************************************************************)
(* princeprocessor (pp.c): the PRINCE password candidate generator.        *)
(* The model follows main(): option validation, loading the word buckets,  *)
(* chain generation and filtering, keyspace calculation, the two qsort     *)
(* calls, skip/limit validation and the enumeration loop, one action per   *)
(* phase and one action per per-length visit of the loop.                  *)
(***************************************************************************)
EXTENDS Integers, Sequences, FiniteSets, TLC

(* ------------------------------------------------------------------ *)
(* Program constants                                                   *)
(* ------------------------------------------------------------------ *)

IN_LEN_MIN == 1

IN_LEN_MAX == 16

DEF_WORDLEN_DIST_CNT == 25

\* DEF_WORDLEN_DIST[0..24] of the source, indexed here 1..25 (entry i+1 = C entry i)
DEF_WORDLEN_DIST ==
  << 0, 15, 56, 350, 3315, 43721, 276252, 201748, 226412, 119885, 75075,
     26323, 13373, 6353, 3540, 1877, 972, 311, 151, 81, 66, 21, 16, 13, 13 >>

(* ------------------------------------------------------------------ *)
(* Bounds of the model                                                 *)
(* ------------------------------------------------------------------ *)

\* longest word list read from stdin
MaxWords == 3

\* largest value given to --pw-min / --pw-max
MaxPw == 3

\* largest value given to --elem-cnt-min / --elem-cnt-max
MaxElem == 2

\* largest value given to --skip / --limit
MaxSkip == 2

\* the words a word list is made of (bytes are one-character strings)
WordPool == { <<"a">>, <<"b">>, <<"b", "c">> }

RECURSIVE SeqsUpTo(_, _)
SeqsUpTo(S, n) ==
  IF n = 0 THEN { <<>> }
  ELSE LET shorter == SeqsUpTo(S, n - 1)
       IN  shorter \cup { Append(s, x) : s \in { t \in shorter : Len(t) = n - 1 }, x \in S }

WordLists == SeqsUpTo(WordPool, MaxWords)

(* ------------------------------------------------------------------ *)
(* State                                                               *)
(* ------------------------------------------------------------------ *)

VARIABLES
  stdin,          \* the lines of the word list, as fgets + in_superchop deliver them
  pw_min, pw_max, elem_cnt_min, elem_cnt_max, wl_dist_len, keyspace, skip, limit,
  db_entries,     \* [1..IN_LEN_MAX -> [words, elems, elems_pos]]
  wordlen_dist,   \* [1..IN_LEN_MAX -> Nat]
  pw_orders,      \* sequence of [len, cnt]; C index i is element i+1
  total_ks_cnt, total_ks_pos,
  order_pos,      \* the for-loop counter of the enumeration loop (0-based)
  out,            \* the lines pushed with out_push, in push order
  printed,        \* what --keyspace printed (<<>> or <<total_ks_cnt>>)
  runs,           \* finished earlier runs over the same inputs: [skip, limit, out]
  call,           \* a function of the source applied on its own: its arguments and results
  fp,             \* out->fp, the sink: the bytes it took, the room it has left, its error flag
  pc

opts == << stdin, pw_min, pw_max, elem_cnt_min, elem_cnt_max, wl_dist_len, keyspace >>

vars == << stdin, pw_min, pw_max, elem_cnt_min, elem_cnt_max, wl_dist_len, keyspace,
           skip, limit, db_entries, wordlen_dist, pw_orders, total_ks_cnt,
           total_ks_pos, order_pos, out, printed, runs, call, fp, pc >>

(* ------------------------------------------------------------------ *)
(* Helpers                                                             *)
(* ------------------------------------------------------------------ *)

MIN(a, b) == IF a < b THEN a ELSE b

RECURSIVE SumSeq(_)
SumSeq(s) == IF s = <<>> THEN 0 ELSE Head(s) + SumSeq(Tail(s))

RECURSIVE Flatten(_)
Flatten(ss) == IF ss = <<>> THEN <<>> ELSE Head(ss) \o Flatten(Tail(ss))

Lens == IN_LEN_MIN .. IN_LEN_MAX

\* the pw_buf arguments of the out_push calls recorded in o, in call order
Lines(o) == [ i \in 1 .. Len(o) |-> o[i].line ]

\* calloc'ed db_entry_t
EmptyEntry == [ words |-> <<>>, elems |-> <<>>, elems_pos |-> 0 ]

\* BUFSIZ of <stdio.h> (glibc): the size of out->buf and of the fgets buffer
BUFSIZ == 8192

\* a sink with no limit on what it takes
NoLimit == -1

\* out->fp as fopen or stdout gives it: nothing written, no error, and room for
\* space more bytes (a full disk, a closed pipe); NoLimit for a sink that never fails
OpenSink(space) == [ written |-> <<>>, space |-> space, error |-> FALSE ]

\* fwrite (buf, 1, len, fp): the sink takes the bytes it has room for; a short
\* write sets the stream's error indicator
Fwrite(f, buf) ==
  IF f.space = NoLimit
  THEN [ f EXCEPT !.written = @ \o buf ]
  ELSE IF Len(buf) <= f.space
       THEN [ f EXCEPT !.written = @ \o buf, !.space = @ - Len(buf) ]
       ELSE [ f EXCEPT !.written = @ \o SubSeq(buf, 1, f.space), !.space = 0,
                       !.error = TRUE ]

\* out_flush without the reset of line 226: the written bytes stay in the buffer
out_flush_keep(o) == [ buf |-> o.buf, fp |-> Fwrite(o.fp, o.buf) ]

\* lines 222-227; o is the out_t: [buf, fp], out->len being Len(o.buf)
out_flush(o) == [ buf |-> <<>>, fp |-> Fwrite(o.fp, o.buf) ]

\* lines 229-239
out_push(o, pw_buf) ==
  LET pushed == [ o EXCEPT !.buf = @ \o pw_buf ]
  IN  IF Len(pushed.buf) >= BUFSIZ - 100 THEN out_flush(pushed) ELSE pushed

\* lines 812-824: the out_push calls of one batch, in order (the one-element
\* sets hold the out_t after the first call and the lines still to push)
RECURSIVE PushAll(_, _)
PushAll(o, lines) ==
  IF lines = <<>> THEN o
  ELSE CHOOSE r \in { PushAll(pushed, rest) : pushed \in { out_push(o, Head(lines)) },
                                             rest \in { Tail(lines) } } : TRUE

\* lines 812-826: the stream after the out_push calls of one batch and the
\* out_flush of line 826, out->buf being empty before the batch
out_batch(f, lines) ==
  CHOOSE r \in { out_flush(o).fp :
                   o \in { PushAll([ buf |-> <<>>, fp |-> f ], ls) : ls \in { lines } } } : TRUE

(* ------------------------------------------------------------------ *)
(* Pure functions of the source                                        *)
(* ------------------------------------------------------------------ *)

RECURSIVE GenWalk(_, _, _, _, _)
GenWalk(len1, elems_idx, elems_shr, elem_key, buf) ==
  IF elems_shr >= len1
  THEN Append(buf, elem_key)
  ELSE IF (elems_idx \div (2 ^ elems_shr)) % 2 = 1
       THEN GenWalk(len1, elems_idx, elems_shr + 1, 1, Append(buf, elem_key))
       ELSE GenWalk(len1, elems_idx, elems_shr + 1, elem_key + 1, buf)

\* the decoding without the reset of line 349: elem_key keeps counting after a split
RECURSIVE GenWalkNoReset(_, _, _, _, _)
GenWalkNoReset(len1, elems_idx, elems_shr, elem_key, buf) ==
  IF elems_shr >= len1
  THEN Append(buf, elem_key)
  ELSE IF (elems_idx \div (2 ^ elems_shr)) % 2 = 1
       THEN GenWalkNoReset(len1, elems_idx, elems_shr + 1, elem_key, Append(buf, elem_key))
       ELSE GenWalkNoReset(len1, elems_idx, elems_shr + 1, elem_key + 1, buf)

elem_gen_no_reset(len1, elems_idx) == GenWalkNoReset(len1, elems_idx, 0, 1, <<>>)

\* the buf[0..cnt-1] written by elem_gen_with_idx; cnt is Len of the result
elem_gen_with_idx(len1, elems_idx) == GenWalk(len1, elems_idx, 0, 1, <<>>)

elem_valid_with_db(buf, db) ==
  \A idx \in 1 .. Len(buf) : Len(db[buf[idx]].words) # 0

elem_valid_with_cnt_min(buf, cnt_min) == ~ (Len(buf) < cnt_min)

elem_valid_with_cnt_max(buf, cnt_max) == ~ (Len(buf) > cnt_max)

RECURSIVE KsWalk(_, _, _, _)
KsWalk(buf, db, idx, ks_cnt) ==
  IF idx > Len(buf) THEN ks_cnt
  ELSE KsWalk(buf, db, idx + 1, ks_cnt * Len(db[buf[idx]].words))

elem_ks(buf, db) == KsWalk(buf, db, 1, 1)

RECURSIVE PwbufWalk(_, _, _, _, _)
PwbufWalk(buf, db, idx, ks_pos, pw_buf) ==
  IF idx > Len(buf) THEN pw_buf
  ELSE LET words     == db[buf[idx]].words
           words_cnt == Len(words)
           words_idx == ks_pos % words_cnt
       IN  PwbufWalk(buf, db, idx + 1, ks_pos \div words_cnt, pw_buf \o words[words_idx + 1])

\* the materializer without the division of line 331: every part reads the same digit
RECURSIVE PwbufWalkNoDiv(_, _, _, _, _)
PwbufWalkNoDiv(buf, db, idx, ks_pos, pw_buf) ==
  IF idx > Len(buf) THEN pw_buf
  ELSE LET words     == db[buf[idx]].words
           words_idx == ks_pos % Len(words)
       IN  PwbufWalkNoDiv(buf, db, idx + 1, ks_pos, pw_buf \o words[words_idx + 1])

elem_set_pwbuf_nodiv(buf, db, ks_pos) == PwbufWalkNoDiv(buf, db, 1, ks_pos, <<>>)

\* the pw_len bytes elem_set_pwbuf writes to pw_buf
elem_set_pwbuf(buf, db, ks_pos) == PwbufWalk(buf, db, 1, ks_pos, <<>>)

(* ------------------------------------------------------------------ *)
(* Init: the state at entry of main, after getopt                      *)
(* ------------------------------------------------------------------ *)

TypeInit ==
  /\ db_entries = [ k \in Lens |-> EmptyEntry ]
  /\ wordlen_dist = [ k \in Lens |-> 0 ]
  /\ pw_orders = <<>>
  /\ total_ks_cnt = 0
  /\ total_ks_pos = 0
  /\ order_pos = 0
  /\ out = <<>>
  /\ printed = <<>>
  /\ runs = <<>>
  /\ call = <<>>
  /\ pc = "options"

\* an option error ends the run before anything else is read, so the rest of
\* the command line is kept at its defaults for those runs
BadOptions(mn, mx, emn, emx) ==
  mn <= 0 \/ emn <= 0 \/ emx <= 0 \/ mn > mx \/ emn > emx \/ mx > IN_LEN_MAX

\* the values given to --pw-min / --pw-max: the small ones and one above IN_LEN_MAX
PwValues == (0 .. MaxPw) \cup { IN_LEN_MAX + 1 }

InitRun(Skips, Limits, Keyspaces, Spaces) ==
  /\ stdin \in WordLists
  /\ pw_min \in PwValues
  /\ pw_max \in PwValues
  /\ elem_cnt_min \in 0 .. MaxElem
  /\ elem_cnt_max \in 0 .. MaxElem
  /\ wl_dist_len \in BOOLEAN
  /\ keyspace \in Keyspaces
  /\ skip \in Skips
  /\ limit \in Limits
  /\ BadOptions(pw_min, pw_max, elem_cnt_min, elem_cnt_max)
       => (stdin = <<>> /\ ~ wl_dist_len /\ skip = 0 /\ limit = 0)
  /\ fp \in { OpenSink(space) : space \in Spaces }
  /\ TypeInit

\* the runs whose sink takes everything
InitWith(Skips, Limits, Keyspaces) == InitRun(Skips, Limits, Keyspaces, { NoLimit })

Init == InitWith(0 .. MaxSkip, 0 .. MaxSkip, BOOLEAN)

(* ------------------------------------------------------------------ *)
(* Setup                                                               *)
(* ------------------------------------------------------------------ *)

\* the option checks without the one of line 492
OptionsOkNoElemOrder ==
  /\ ~ (pw_min <= 0)
  /\ ~ (elem_cnt_min <= 0)
  /\ ~ (elem_cnt_max <= 0)
  /\ ~ (pw_min > pw_max)
  /\ ~ (pw_min < IN_LEN_MIN)
  /\ ~ (pw_max > IN_LEN_MAX)

\* lines 457-511: the option checks, in the order of the source
OptionsOk ==
  /\ ~ (pw_min <= 0)
  /\ ~ (pw_min <= 0)
  /\ ~ (elem_cnt_min <= 0)
  /\ ~ (elem_cnt_max <= 0)
  /\ ~ (pw_min > pw_max)
  /\ ~ (elem_cnt_min > elem_cnt_max)
  /\ ~ (pw_min < IN_LEN_MIN)
  /\ ~ (pw_max > IN_LEN_MAX)

CheckOptions ==
  /\ pc = "options"
  /\ pc' = IF OptionsOk THEN "load" ELSE "error"
  /\ UNCHANGED << opts, skip, limit, db_entries, wordlen_dist, pw_orders, total_ks_cnt,
                  total_ks_pos, order_pos, out, printed, runs, call, fp >>

RECURSIVE LoadWalk(_, _)
LoadWalk(lines, db) ==
  IF lines = <<>> THEN db
  ELSE LET input_buf == Head(lines)
           input_len == Len(input_buf)
       IN  IF input_len < IN_LEN_MIN \/ input_len > IN_LEN_MAX
           THEN LoadWalk(Tail(lines), db)
           ELSE LoadWalk(Tail(lines),
                         [db EXCEPT ![input_len].words = Append(@, input_buf)])

\* lines 554-576
Load ==
  /\ pc = "load"
  /\ db_entries' = LoadWalk(stdin, db_entries)
  /\ pc' = "elems"
  /\ UNCHANGED << opts, skip, limit, wordlen_dist, pw_orders, total_ks_cnt,
                  total_ks_pos, order_pos, out, printed, runs, call, fp >>

\* lines 598-610: the three filters of a generated chain
ElemKept(buf, db, cnt_min, cnt_max) ==
  /\ elem_valid_with_db(buf, db)
  /\ elem_valid_with_cnt_min(buf, cnt_min)
  /\ elem_valid_with_cnt_max(buf, cnt_max)

\* lines 586-624: the chains of one slot, in elems_idx order
SlotElems(pw_len, db, cnt_min, cnt_max) ==
  LET pw_len1   == pw_len - 1
      elems_cnt == 2 ^ pw_len1
      gen       == [ i \in 1 .. elems_cnt |->
                       [ buf    |-> elem_gen_with_idx(pw_len1, i - 1),
                         ks_cnt |-> 0,
                         ks_pos |-> 0 ] ]
  IN  SelectSeq(gen, LAMBDA e : ElemKept(e.buf, db, cnt_min, cnt_max))

\* lines 582-625
InitElems ==
  /\ pc = "elems"
  /\ db_entries' = [ k \in Lens |->
                       IF pw_min <= k /\ k <= pw_max
                       THEN [ db_entries[k] EXCEPT
                                !.elems = SlotElems(k, db_entries, elem_cnt_min, elem_cnt_max) ]
                       ELSE db_entries[k] ]
  /\ pc' = "dist"
  /\ UNCHANGED << opts, skip, limit, wordlen_dist, pw_orders, total_ks_cnt,
                  total_ks_pos, order_pos, out, printed, runs, call, fp >>

\* lines 631-653
WordlenDist(db, wl) ==
  [ pw_len \in Lens |->
      IF wl THEN Len(db[pw_len].words)
      ELSE IF pw_len < DEF_WORDLEN_DIST_CNT THEN DEF_WORDLEN_DIST[pw_len + 1] ELSE 1 ]

CalcDist ==
  /\ pc = "dist"
  /\ wordlen_dist' = WordlenDist(db_entries, wl_dist_len)
  /\ pc' = "keyspace"
  /\ UNCHANGED << opts, skip, limit, db_entries, pw_orders, total_ks_cnt,
                  total_ks_pos, order_pos, out, printed, runs, call, fp >>

\* lines 666-675, one slot: elem_buf->ks_cnt += elem_ks (...)
SlotWithKs(entry, db) ==
  [ entry EXCEPT !.elems =
      [ i \in 1 .. Len(entry.elems) |->
          [ entry.elems[i] EXCEPT !.ks_cnt = @ + elem_ks(entry.elems[i].buf, db) ] ] ]

\* line 674 adding 1 for every chain instead of the chain's keyspace
RECURSIVE TotalKsChains(_, _, _)
TotalKsChains(db, pw_len, mx) ==
  IF pw_len > mx THEN 0
  ELSE Len(db[pw_len].elems) + TotalKsChains(db, pw_len + 1, mx)

\* line 674 over all slots: total_ks_cnt as the sum of the chains' keyspaces
RECURSIVE TotalKs(_, _, _)
TotalKs(db, pw_len, mx) ==
  IF pw_len > mx THEN 0
  ELSE SumSeq([ i \in 1 .. Len(db[pw_len].elems) |-> elem_ks(db[pw_len].elems[i].buf, db) ])
         + TotalKs(db, pw_len + 1, mx)

\* lines 659-689
CalcKeyspace ==
  /\ pc = "keyspace"
  /\ db_entries' = [ k \in Lens |->
                       IF pw_min <= k /\ k <= pw_max
                       THEN SlotWithKs(db_entries[k], db_entries)
                       ELSE db_entries[k] ]
  /\ total_ks_cnt' = total_ks_cnt + TotalKs(db_entries, pw_min, pw_max)
  /\ printed' = IF keyspace THEN << total_ks_cnt' >> ELSE printed
  /\ pc' = IF keyspace THEN "exit" ELSE "sort_elems"
  /\ UNCHANGED << opts, skip, limit, wordlen_dist, pw_orders,
                  total_ks_pos, order_pos, out, runs, call, fp >>

(* ------------------------------------------------------------------ *)
(* qsort                                                               *)
(* ------------------------------------------------------------------ *)

RECURSIVE Perms(_)
Perms(S) ==
  IF S = {} THEN { <<>> }
  ELSE UNION { { << i >> \o t : t \in Perms(S \ {i}) } : i \in S }

Sign(x) == IF x < 0 THEN -1 ELSE IF x > 0 THEN 1 ELSE 0

\* The arrays qsort may leave.  With a comparator that orders the elements
\* consistently the result is sorted by it and elements that compare equal are
\* left in an unspecified order; with a comparator whose answers contradict one
\* another (cmp (a, b) > 0 without cmp (b, a) < 0) the call has no defined
\* result and every rearrangement of the array is possible.
Qsort(arr, cmp(_, _)) ==
  LET n          == Len(arr)
      consistent == \A i, j \in 1 .. n : Sign(cmp(arr[i], arr[j])) = - Sign(cmp(arr[j], arr[i]))
      all        == { [ k \in 1 .. n |-> arr[p[k]] ] : p \in Perms(1 .. n) }
  IN  IF consistent
      THEN { r \in all : \A i, j \in 1 .. n : i < j => cmp(r[i], r[j]) <= 0 }
      ELSE all

\* lines 241-247
sort_by_cnt(o1, o2) == IF o1.cnt < o2.cnt THEN 1 ELSE 0

\* lines 249-255: mpz_cmp
sort_by_ks(f1, f2) == Sign(f1.ks_cnt - f2.ks_cnt)

\* lines 695-704: every slot sorted, all the results the qsort calls may give
RECURSIVE SortAll(_, _, _)
SortAll(db, pw_len, mx) ==
  IF pw_len > mx THEN { db }
  ELSE UNION { { [ d EXCEPT ![pw_len].elems = e ] : e \in Qsort(db[pw_len].elems, sort_by_ks) }
               : d \in SortAll(db, pw_len + 1, mx) }

SortElems ==
  /\ pc = "sort_elems"
  /\ db_entries' \in SortAll(db_entries, pw_min, pw_max)
  /\ pc' = "sort_orders"
  /\ UNCHANGED << opts, skip, limit, wordlen_dist, pw_orders, total_ks_cnt,
                  total_ks_pos, order_pos, out, printed, runs, call, fp >>

order_cnt == pw_max + 1 - pw_min

\* lines 710-720
OrdersInit(db, mn, mx) ==
  [ i \in 1 .. (mx + 1 - mn) |-> [ len |-> mn + i - 1, cnt |-> Len(db[mn + i - 1].words) ] ]

\* lines 710-724
SortOrders ==
  /\ pc = "sort_orders"
  /\ pw_orders' \in Qsort(OrdersInit(db_entries, pw_min, pw_max), sort_by_cnt)
  /\ pc' = "seek"
  /\ UNCHANGED << opts, skip, limit, db_entries, wordlen_dist, total_ks_cnt,
                  total_ks_pos, order_pos, out, printed, runs, call, fp >>

(* ------------------------------------------------------------------ *)
(* skip / limit                                                        *)
(* ------------------------------------------------------------------ *)

\* the checks of lines 732, 742 and 755 with >= in place of >: the boundary is rejected
SeekOkStrict(sk, lim, total) ==
  /\ ~ (sk # 0 /\ sk >= total)
  /\ ~ (lim # 0 /\ lim >= total)
  /\ ~ (lim # 0 /\ sk + lim >= total)

\* lines 730-760: the three rejections
SeekOk(sk, lim, total) ==
  /\ ~ (sk # 0 /\ sk > total)
  /\ ~ (lim # 0 /\ lim > total)
  /\ ~ (lim # 0 /\ sk + lim > total)

\* line 753 without skip: the loop would end at position limit
EffectiveTotalNoSkip(sk, lim, total) == IF lim # 0 THEN lim ELSE total

\* line 762
EffectiveTotal(sk, lim, total) == IF lim # 0 THEN sk + lim ELSE total

\* lines 730-765
Seek ==
  /\ pc = "seek"
  /\ IF SeekOk(skip, limit, total_ks_cnt)
     THEN /\ total_ks_cnt' = EffectiveTotal(skip, limit, total_ks_cnt)
          /\ pc' = "while"
     ELSE /\ total_ks_cnt' = total_ks_cnt
          /\ pc' = "error"
  /\ UNCHANGED << opts, skip, limit, db_entries, wordlen_dist, pw_orders,
                  total_ks_pos, order_pos, out, printed, runs, call, fp >>

(* ------------------------------------------------------------------ *)
(* The enumeration loop                                                *)
(* ------------------------------------------------------------------ *)

\* line 771
While ==
  /\ pc = "while"
  /\ IF total_ks_pos < total_ks_cnt
     THEN pc' = "visit" /\ order_pos' = 0
     ELSE pc' = "done" /\ order_pos' = order_pos
  /\ UNCHANGED << opts, skip, limit, db_entries, wordlen_dist, pw_orders, total_ks_cnt,
                  total_ks_pos, out, printed, runs, call, fp >>

\* the batch size without the cap of line 794: the chain's remaining keyspace is ignored
IterMaxNoRest(ks_cnt, ks_pos, words_cnt, total_cnt, total_pos) ==
  LET total_ks_left == total_cnt - total_pos
  IN  IF total_ks_left < words_cnt THEN total_ks_left ELSE words_cnt

\* the batch size without lines 803-808: the positions left up to the total are ignored
IterMaxNoTotal(ks_cnt, ks_pos, words_cnt, total_cnt, total_pos) ==
  LET rest == ks_cnt - ks_pos
  IN  IF rest > words_cnt THEN words_cnt ELSE rest

\* lines 794-808
IterMax(ks_cnt, ks_pos, words_cnt, total_cnt, total_pos) ==
  LET rest          == ks_cnt - ks_pos
      capped        == IF rest > words_cnt THEN words_cnt ELSE rest
      total_ks_left == total_cnt - total_pos
  IN  IF total_ks_left < capped THEN total_ks_left ELSE capped

\* the gate of line 816 as an off-by-one slip: the candidate at position skip is dropped
SkipGateStrict(total_pos, sk) == total_pos > sk

\* line 816
SkipGate(total_pos, sk) == total_pos >= sk

\* the inner loop with line 814 counting only the candidates that pass the skip
\* gate: a skipped position would not advance the local position
PushesSkipStalls(db, pw_len, elems_pos, iter_max, total_pos, sk) ==
  LET elem_buf == db[pw_len].elems[elems_pos + 1]
      skipped  == Cardinality({ i \in 1 .. iter_max : ~ SkipGate(total_pos + (i - 1), sk) })
  IN  [ i \in 1 .. (iter_max - skipped) |->
          [ pos  |-> total_pos + skipped + (i - 1),
            len  |-> pw_len,
            elem |-> elems_pos,
            ks   |-> elem_buf.ks_pos + (i - 1),
            line |-> elem_set_pwbuf(elem_buf.buf, db, elem_buf.ks_pos + (i - 1))
                       \o << "\n" >> ] ]

\* lines 812-824: the lines pushed by one batch, each with the global position,
\* the slot, the chain and the local position it was materialized from
Pushes(db, pw_len, elems_pos, iter_max, total_pos, sk) ==
  LET elem_buf == db[pw_len].elems[elems_pos + 1]
      all == [ i \in 1 .. iter_max |->
                 [ pos  |-> total_pos + (i - 1),
                   len  |-> pw_len,
                   elem |-> elems_pos,
                   ks   |-> elem_buf.ks_pos + (i - 1),
                   line |-> elem_set_pwbuf(elem_buf.buf, db, elem_buf.ks_pos + (i - 1))
                              \o << "\n" >> ] ]
  IN  SelectSeq(all, LAMBDA r : SkipGate(r.pos, sk))

\* lines 828-835 without the addition of line 828: a chain not finished in
\* the batch keeps its local position
AdvanceNoAdd(entry, iter_max) ==
  LET elem_buf == entry.elems[entry.elems_pos + 1]
      ks_pos   == elem_buf.ks_pos + iter_max
  IN  IF ks_pos = elem_buf.ks_cnt
      THEN [ entry EXCEPT !.elems[entry.elems_pos + 1].ks_pos = 0,
                          !.elems_pos = @ + 1 ]
      ELSE entry

\* lines 828-835 without the reset of line 832
AdvanceNoReset(entry, iter_max) ==
  LET elem_buf == entry.elems[entry.elems_pos + 1]
      ks_pos   == elem_buf.ks_pos + iter_max
  IN  IF ks_pos = elem_buf.ks_cnt
      THEN [ entry EXCEPT !.elems[entry.elems_pos + 1].ks_pos = ks_pos,
                          !.elems_pos = @ + 1 ]
      ELSE [ entry EXCEPT !.elems[entry.elems_pos + 1].ks_pos = ks_pos ]

\* lines 828-835
Advance(entry, iter_max) ==
  LET elem_buf == entry.elems[entry.elems_pos + 1]
      ks_pos   == elem_buf.ks_pos + iter_max
  IN  IF ks_pos = elem_buf.ks_cnt
      THEN [ entry EXCEPT !.elems[entry.elems_pos + 1].ks_pos = 0,
                          !.elems_pos = @ + 1 ]
      ELSE [ entry EXCEPT !.elems[entry.elems_pos + 1].ks_pos = ks_pos ]

\* lines 773-838: one pass of the for loop body, with the loop's own increment
Visit ==
  /\ pc = "visit"
  /\ LET pw_len    == pw_orders[order_pos + 1].len
         db_entry  == db_entries[pw_len]
         elems_cnt == Len(db_entry.elems)
         elems_pos == db_entry.elems_pos
         next_pos  == order_pos + 1
     IN  IF elems_pos = elems_cnt
         THEN /\ order_pos' = next_pos
              /\ pc' = IF next_pos < order_cnt THEN "visit" ELSE "while"
              /\ UNCHANGED << db_entries, total_ks_pos, out, fp >>
         ELSE LET elem_buf == db_entry.elems[elems_pos + 1]
                  iter_max == IterMax(elem_buf.ks_cnt, elem_buf.ks_pos,
                                      wordlen_dist[pw_len], total_ks_cnt, total_ks_pos)
                  pushes   == Pushes(db_entries, pw_len, elems_pos, iter_max,
                                     total_ks_pos, skip)
              IN  /\ out' = out \o pushes
                  /\ fp' = out_batch(fp, Lines(pushes))
                  /\ total_ks_pos' = total_ks_pos + iter_max
                  /\ db_entries' = [ db_entries EXCEPT ![pw_len] = Advance(@, iter_max) ]
                  /\ IF total_ks_pos' = total_ks_cnt
                     THEN pc' = "while" /\ order_pos' = order_pos
                     ELSE /\ order_pos' = next_pos
                          /\ pc' = IF next_pos < order_cnt THEN "visit" ELSE "while"
  /\ UNCHANGED << opts, skip, limit, wordlen_dist, pw_orders, total_ks_cnt, printed, runs, call >>

Next ==
  \/ CheckOptions
  \/ Load
  \/ InitElems
  \/ CalcDist
  \/ CalcKeyspace
  \/ SortElems
  \/ SortOrders
  \/ Seek
  \/ While
  \/ Visit

Spec == Init /\ [][Next]_vars

\* the runs without --skip, --limit and --keyspace: the whole keyspace is enumerated
InitFull == InitWith({0}, {0}, {FALSE})

SpecFull == InitFull /\ [][Next]_vars

\* largest number of bytes a failing sink takes before it fails
MaxSpace == 4

\* full runs writing to a sink that fails after taking 0 .. MaxSpace bytes
InitSink == InitRun({0}, {0}, {FALSE}, 0 .. MaxSpace)

SpecSink == InitSink /\ [][Next]_vars

\* main ends when it returns: 0 after the loop or after --keyspace, -1 on an error
Terminated == pc \in { "done", "exit", "error" }

\* the scheduling of a sequential program: main keeps running until it returns
FairSpec == Init /\ [][Next]_vars /\ WF_vars(Next)

(* ------------------------------------------------------------------ *)
(* Running the program again over the same word list and options       *)
(* ------------------------------------------------------------------ *)

\* total_ks_cnt as lines 672-674 leave it, read back from the chains' ks_cnt
RECURSIVE SetupTotal(_, _, _)
SetupTotal(db, pw_len, mx) ==
  IF pw_len > mx THEN 0
  ELSE SumSeq([ i \in 1 .. Len(db[pw_len].elems) |-> db[pw_len].elems[i].ks_cnt ])
         + SetupTotal(db, pw_len + 1, mx)

\* lines 620-621 and the calloc of line 525: the cursors of a fresh process
FreshCursors(db) ==
  [ k \in Lens |->
      [ db[k] EXCEPT !.elems_pos = 0,
                     !.elems = [ i \in 1 .. Len(db[k].elems) |->
                                   [ db[k].elems[i] EXCEPT !.ks_pos = 0 ] ] ] ]

\* A second process started with the same word list and options and with
\* --skip=sk --limit=lim.  Setup is a function of the word list, the options and
\* the build (its qsort), so the new process reaches the skip/limit checks with
\* the same buckets, chains and orders as the finished one, and fresh cursors.
Rerun(sk, lim) ==
  /\ pc = "done"
  /\ runs' = Append(runs, [ skip |-> skip, limit |-> limit, out |-> out ])
  /\ skip' = sk
  /\ limit' = lim
  /\ db_entries' = FreshCursors(db_entries)
  /\ total_ks_cnt' = SetupTotal(db_entries, pw_min, pw_max)
  /\ total_ks_pos' = 0
  /\ order_pos' = 0
  /\ out' = <<>>
  /\ fp' = OpenSink(NoLimit)
  /\ pc' = "seek"
  /\ UNCHANGED << opts, wordlen_dist, pw_orders, printed, call >>

\* a full run (no --skip, no --limit) followed by one run over a window
InitWindow == InitFull

RerunWindow ==
  /\ runs = <<>>
  /\ \E sk \in 0 .. MaxSkip, lim \in 0 .. MaxSkip : Rerun(sk, lim)

NextWindow == Next \/ RerunWindow

SpecWindow == InitWindow /\ [][NextWindow]_vars

\* largest K of a split into two shards
MaxShard == 4

\* three runs: --limit=K, then --skip=K --limit=total-K, then --limit=total
InitShards == InitWith({0}, 0 .. MaxShard, {FALSE})

RerunShard ==
  /\ Len(runs) < 2
  /\ LET total == SetupTotal(db_entries, pw_min, pw_max)
     IN  IF runs = <<>> THEN Rerun(limit, total - limit) ELSE Rerun(0, total)

NextShards == Next \/ RerunShard

SpecShards == InitShards /\ [][NextShards]_vars

(* ------------------------------------------------------------------ *)
(* elem_set_pwbuf on its own                                           *)
(* ------------------------------------------------------------------ *)

\* longest word list the materializer is applied to
MaxCallWords == 3

CallWordPool == { <<"a">>, <<"b">>, <<"c">>, <<"b", "c">> }

\* the chains elem_gen_with_idx produces for the lengths up to MaxPw
CallChains ==
  UNION { { elem_gen_with_idx(n - 1, i) : i \in 0 .. (2 ^ (n - 1) - 1) } : n \in 1 .. MaxPw }

\* a loaded word list, a chain whose buckets are all non-empty, and no call made yet
InitPwbuf ==
  /\ stdin \in SeqsUpTo(CallWordPool, MaxCallWords)
  /\ pw_min = 1 /\ pw_max = MaxPw /\ elem_cnt_min = 1 /\ elem_cnt_max = MaxPw
  /\ wl_dist_len = FALSE /\ keyspace = FALSE /\ skip = 0 /\ limit = 0
  /\ db_entries = LoadWalk(stdin, [ k \in Lens |-> EmptyEntry ])
  /\ wordlen_dist = [ k \in Lens |-> 0 ]
  /\ pw_orders = <<>>
  /\ total_ks_cnt = 0 /\ total_ks_pos = 0 /\ order_pos = 0
  /\ out = <<>> /\ printed = <<>> /\ runs = <<>>
  /\ fp = OpenSink(NoLimit)
  /\ call \in { [ buf |-> b, results |-> <<>> ] :
                  b \in { c \in CallChains : elem_valid_with_db(c, db_entries) } }
  /\ pc = "call"

\* lines 814-818: elem_set_pwbuf for the next local position of the chain
SetPwbuf ==
  /\ pc = "call"
  /\ Len(call.results) < elem_ks(call.buf, db_entries)
  /\ call' = [ call EXCEPT !.results =
                 Append(@, elem_set_pwbuf(call.buf, db_entries, Len(call.results))) ]
  /\ UNCHANGED << opts, skip, limit, db_entries, wordlen_dist, pw_orders, total_ks_cnt,
                  total_ks_pos, order_pos, out, printed, runs, fp, pc >>

SpecPwbuf == InitPwbuf /\ [][SetPwbuf]_vars

(* ------------------------------------------------------------------ *)
(* The load loop over the bytes of the input stream                    *)
(* ------------------------------------------------------------------ *)

\* most lines written to the input stream
MaxLines == 2

LF == "\n"

CR == "\r"

\* the byte '\0'
NUL == "NUL"

\* n bytes 'x'
Xs(n) == [ i \in 1 .. n |-> "x" ]

\* what a line holds before its terminator: short words, the empty line, the
\* longest word and one byte more, a word with a CR or a NUL inside, and lines
\* around the size of the fgets buffer
LineBodies ==
  { <<"a">>, <<"b", "c">>, <<>>, << "a", CR, "b" >>, << "a", NUL, "b" >>,
    Xs(IN_LEN_MAX), Xs(IN_LEN_MAX + 1), Xs(BUFSIZ - 2), Xs(BUFSIZ - 1), Xs(BUFSIZ + 1) }

LineEnds == { << LF >>, << CR, LF >>, << CR, CR, LF >>, <<>> }

\* the texts of the input stream, line by line: every line but the last ends with LF
InputTexts ==
  { t \in SeqsUpTo({ [ body |-> b, end |-> e ] : b \in LineBodies, e \in LineEnds }, MaxLines) :
      \A i \in 1 .. (Len(t) - 1) : t[i].end # <<>> }

\* the bytes of a text
RECURSIVE Bytes(_)
Bytes(t) == IF t = <<>> THEN <<>> ELSE Head(t).body \o Head(t).end \o Bytes(Tail(t))

\* the smallest element of a non-empty set of numbers
Least(S) == CHOOSE i \in S : \A j \in S : i <= j

\* fgets (buf, size, stdin) on a stream with unread bytes input: it stores
\* the bytes up to and including the first LF, at most size - 1 of them;
\* eof is the stream's end-of-file indicator after the call
fgets(input, size) ==
  LET lim == MIN(Len(input), size - 1)
      nl  == { i \in 1 .. lim : input[i] = LF }
      cut == IF nl = {} THEN lim ELSE Least(nl)
  IN  [ buf  |-> SubSeq(input, 1, cut),
        rest |-> SubSeq(input, cut + 1, Len(input)),
        eof  |-> nl = {} /\ Len(input) < size ]

\* strlen: the bytes before the first NUL
strlen(buf) ==
  LET z == { i \in 1 .. Len(buf) : buf[i] = NUL }
  IN  IF z = {} THEN Len(buf) ELSE Least(z) - 1

\* lines 198-215
RECURSIVE ChopWalk(_, _)
ChopWalk(buf, len) ==
  IF len = 0 THEN len
  ELSE IF buf[len] = LF THEN ChopWalk(buf, len - 1)
  ELSE IF buf[len] = CR THEN ChopWalk(buf, len - 1)
  ELSE len

\* lines 194-220: the bytes buf holds up to its new terminating NUL
in_superchop(buf) == SubSeq(buf, 1, ChopWalk(buf, strlen(buf)))

\* the state at line 554 with a text on stdin and nothing loaded
InitLoad ==
  /\ call \in { [ text |-> t, input |-> Bytes(t), eof |-> FALSE ] : t \in InputTexts }
  /\ stdin = <<>>
  /\ pw_min = 1 /\ pw_max = MaxPw /\ elem_cnt_min = 1 /\ elem_cnt_max = MaxPw
  /\ wl_dist_len = FALSE /\ keyspace = FALSE /\ skip = 0 /\ limit = 0
  /\ db_entries = [ k \in Lens |-> EmptyEntry ]
  /\ wordlen_dist = [ k \in Lens |-> 0 ]
  /\ pw_orders = <<>>
  /\ total_ks_cnt = 0 /\ total_ks_pos = 0 /\ order_pos = 0
  /\ out = <<>> /\ printed = <<>> /\ runs = <<>>
  /\ fp = OpenSink(NoLimit)
  /\ pc = "fgets"

\* lines 554-576: one pass of the while loop
ReadLine ==
  /\ pc = "fgets"
  /\ ~ call.eof
  /\ IF call.input = <<>>
     THEN /\ call' = [ call EXCEPT !.eof = TRUE ]
          /\ stdin' = stdin
          /\ db_entries' = db_entries
     ELSE LET got       == fgets(call.input, BUFSIZ)
              input_buf == in_superchop(got.buf)
          IN  /\ call' = [ call EXCEPT !.input = got.rest, !.eof = got.eof ]
              /\ stdin' = Append(stdin, input_buf)
              /\ db_entries' = LoadWalk(<< input_buf >>, db_entries)
  /\ UNCHANGED << pw_min, pw_max, elem_cnt_min, elem_cnt_max, wl_dist_len, keyspace,
                  skip, limit, wordlen_dist, pw_orders, total_ks_cnt,
                  total_ks_pos, order_pos, out, printed, runs, fp, pc >>

\* line 554: the loop ends when the end-of-file indicator is set
LoadEnd ==
  /\ pc = "fgets"
  /\ call.eof
  /\ pc' = "elems"
  /\ UNCHANGED << opts, skip, limit, db_entries, wordlen_dist, pw_orders, total_ks_cnt,
                  total_ks_pos, order_pos, out, printed, runs, call, fp >>

NextLoad == ReadLine \/ LoadEnd

SpecLoad == InitLoad /\ [][NextLoad]_vars

(* ------------------------------------------------------------------ *)
(* out_push and out_flush on their own                                 *)
(* ------------------------------------------------------------------ *)

\* most calls of out_push and out_flush made on one buffer
MaxCalls == 3

\* the longest pw_buf passed to out_push: pw_len + 1 with pw_len = IN_LEN_MAX
PushMax == IN_LEN_MAX + 1

\* the numbers of bytes of a push: the shortest line, and the longest
PushSizes == { 2, PushMax }

\* out->len when the calls start: an empty buffer, or one that earlier pushes
\* filled to within two pushes of the flush threshold of line 235
StartFills == { 0 } \cup ((BUFSIZ - 100 - 2 * PushMax) .. (BUFSIZ - 100 - 1))

\* a buffer holding the bytes of earlier pushes, none of them written yet
InitOut ==
  /\ call \in { [ buf |-> Xs(n), pushed |-> Xs(n), peak |-> n, calls |-> 0, last |-> "none" ] :
                  n \in StartFills }
  /\ stdin = <<>>
  /\ pw_min = 1 /\ pw_max = MaxPw /\ elem_cnt_min = 1 /\ elem_cnt_max = MaxPw
  /\ wl_dist_len = FALSE /\ keyspace = FALSE /\ skip = 0 /\ limit = 0
  /\ db_entries = [ k \in Lens |-> EmptyEntry ]
  /\ wordlen_dist = [ k \in Lens |-> 0 ]
  /\ pw_orders = <<>>
  /\ total_ks_cnt = 0 /\ total_ks_pos = 0 /\ order_pos = 0
  /\ out = <<>> /\ printed = <<>> /\ runs = <<>>
  /\ fp = OpenSink(NoLimit)
  /\ pc = "out"

\* line 820: out_push of size bytes, all a or all b, alternating from call to call
OutPush(size) ==
  /\ pc = "out"
  /\ call.calls < MaxCalls
  /\ LET pw_buf == [ i \in 1 .. size |-> IF call.calls % 2 = 0 THEN "a" ELSE "b" ]
         after  == out_push([ buf |-> call.buf, fp |-> fp ], pw_buf)
         filled == Len(call.buf) + size
     IN  /\ call' = [ buf    |-> after.buf,
                      pushed |-> call.pushed \o pw_buf,
                      peak   |-> IF filled > call.peak THEN filled ELSE call.peak,
                      calls  |-> call.calls + 1,
                      last   |-> "push" ]
         /\ fp' = after.fp
  /\ UNCHANGED << opts, skip, limit, db_entries, wordlen_dist, pw_orders, total_ks_cnt,
                  total_ks_pos, order_pos, out, printed, runs, pc >>

\* line 826: the out_flush that ends a batch
OutFlush ==
  /\ pc = "out"
  /\ call.calls < MaxCalls
  /\ LET after == out_flush([ buf |-> call.buf, fp |-> fp ])
     IN  /\ call' = [ call EXCEPT !.buf = after.buf, !.calls = @ + 1, !.last = "flush" ]
         /\ fp' = after.fp
  /\ UNCHANGED << opts, skip, limit, db_entries, wordlen_dist, pw_orders, total_ks_cnt,
                  total_ks_pos, order_pos, out, printed, runs, pc >>

NextOut == (\E size \in PushSizes : OutPush(size)) \/ OutFlush

SpecOut == InitOut /\ [][NextOut]_vars

(* ------------------------------------------------------------------ *)
(* Properties                                                          *)
(* ------------------------------------------------------------------ *)

\* C1: when the enumeration loop has ended, the number of candidates pushed
\* equals limit if limit > 0, and otherwise the sum of the chains' keyspaces
\* computed at setup minus skip.
CountEqualsEmission ==
  pc = "done" =>
    Len(out) = IF limit > 0 THEN limit ELSE SetupTotal(db_entries, pw_min, pw_max) - skip

\* a finished run with both --skip and --limit that emitted something
CountEqualsEmissionWitness ==
  pc = "done" /\ skip > 0 /\ limit > 1 /\ Len(out) = limit
    /\ SetupTotal(db_entries, pw_min, pw_max) > skip + limit

\* the states in which the chains of every slot have been generated and filtered
ChainsBuilt ==
  pc \in { "dist", "keyspace", "sort_elems", "sort_orders", "seek", "while", "visit",
           "done", "exit" }

\* C5: in a run with skip = 0 and limit = 0, when the loop has ended every pair
\* (chain of a slot in [pw_min, pw_max], local position below the chain's
\* keyspace) has been pushed exactly once, and nothing else has been pushed.
EveryPairOnce ==
  (pc = "done" /\ skip = 0 /\ limit = 0) =>
    /\ \A n \in pw_min .. pw_max :
         \A e \in 1 .. Len(db_entries[n].elems) :
           \A p \in 0 .. (db_entries[n].elems[e].ks_cnt - 1) :
             Cardinality({ i \in 1 .. Len(out) :
                             out[i].len = n /\ out[i].elem = e - 1 /\ out[i].ks = p }) = 1
    /\ \A i \in 1 .. Len(out) :
         /\ out[i].len \in pw_min .. pw_max
         /\ out[i].elem < Len(db_entries[out[i].len].elems)
         /\ out[i].ks < db_entries[out[i].len].elems[out[i].elem + 1].ks_cnt

\* a finished full run in which a slot held two chains, one of them too large
\* for a single batch, so that it was drawn over several visits
EveryPairOnceWitness ==
  /\ pc = "done" /\ skip = 0 /\ limit = 0
  /\ \E n \in pw_min .. pw_max :
       /\ Len(db_entries[n].elems) >= 2
       /\ \E e \in 1 .. Len(db_entries[n].elems) :
            db_entries[n].elems[e].ks_cnt > wordlen_dist[n]

\* the compositions of n: the sequences of positive parts that sum to n
CompositionsOf ==
  [ n \in 1 .. IN_LEN_MAX |->
      IF n > MaxPw THEN {}
      ELSE { c \in UNION { [ 1 .. m -> 1 .. n ] : m \in 1 .. n } : SumSeq(c) = n } ]

\* C10: after setup the chains of slot n are exactly the compositions of n whose
\* parts all have a non-empty bucket and whose number of parts lies in
\* [elem_cnt_min, elem_cnt_max], each stored once, and the 2^(n-1) split
\* bitmasks decode to pairwise distinct compositions of n.
ChainsAreCompositions ==
  ChainsBuilt =>
    \A n \in pw_min .. pw_max :
      LET elems == db_entries[n].elems
          masks == 0 .. (2 ^ (n - 1) - 1)
      IN  /\ \A i, j \in 1 .. Len(elems) : i # j => elems[i].buf # elems[j].buf
          /\ { elems[i].buf : i \in 1 .. Len(elems) }
               = { c \in CompositionsOf[n] :
                     /\ \A k \in 1 .. Len(c) : Len(db_entries[c[k]].words) > 0
                     /\ elem_cnt_min <= Len(c) /\ Len(c) <= elem_cnt_max }
          /\ \A i \in masks : SumSeq(elem_gen_with_idx(n - 1, i)) = n
          /\ \A i, j \in masks :
               i # j => elem_gen_with_idx(n - 1, i) # elem_gen_with_idx(n - 1, j)

\* a slot of length 3 that kept (1,2) and (2,1) and dropped (3) and (1,1,1)
ChainsAreCompositionsWitness ==
  /\ ChainsBuilt /\ pw_max = 3
  /\ { db_entries[3].elems[i].buf : i \in 1 .. Len(db_entries[3].elems) }
       = { << 1, 2 >>, << 2, 1 >> }

\* C2: the candidate at a global position is the same whatever skip and limit
\* are: a finished run with skip = s and limit = l > 0 pushed exactly the lines
\* at global positions s .. s+l-1 of the full run (skip = 0, limit = 0) over the
\* same inputs, in that order; and every line any second run pushed is the
\* full run's line at the same global position.
WindowOfFullRun ==
  (pc = "done" /\ Len(runs) = 1) =>
    LET full == runs[1].out
    IN  /\ \A k \in 1 .. Len(full) : full[k].pos = k - 1
        /\ \A i \in 1 .. Len(out) :
             /\ out[i].pos < Len(full)
             /\ out[i].line = full[out[i].pos + 1].line
        /\ limit > 0 =>
             /\ Lines(out) = SubSeq(Lines(full), skip + 1, skip + limit)
             /\ \A i \in 1 .. Len(out) : out[i].pos = skip + (i - 1)

\* a finished window strictly inside the full run, with two different candidates
WindowOfFullRunWitness ==
  /\ pc = "done" /\ Len(runs) = 1
  /\ skip > 0 /\ limit > 1 /\ Len(out) = limit
  /\ Len(runs[1].out) > skip + limit
  /\ out[1].line # out[2].line

\* the three runs of a split at K: (0, K), (K, total - K) and (0, total)
ShardRunsDone ==
  /\ pc = "done" /\ Len(runs) = 2
  /\ runs[1].skip = 0
  /\ runs[2].skip = runs[1].limit
  /\ runs[2].limit = SetupTotal(db_entries, pw_min, pw_max) - runs[1].limit
  /\ skip = 0 /\ limit = SetupTotal(db_entries, pw_min, pw_max)

\* C3 as stated: for every K with 0 <= K <= total, the output of the run
\* (skip 0, limit K) followed by the output of the run (skip K, limit total - K)
\* equals the output of the run (skip 0, limit total).
ShardsComposeFromZero ==
  ShardRunsDone => Lines(runs[1].out) \o Lines(runs[2].out) = Lines(out)

\* C3 amended: the same for every K with 1 <= K <= total (limit = 0 means "no
\* limit", so the split at K = 0 runs the whole keyspace twice).
ShardsCompose ==
  (ShardRunsDone /\ runs[1].limit >= 1) =>
    Lines(runs[1].out) \o Lines(runs[2].out) = Lines(out)

\* a split with both shards non-empty
ShardsComposeWitness ==
  /\ ShardRunsDone
  /\ runs[1].limit >= 2
  /\ Len(runs[1].out) = runs[1].limit
  /\ Len(runs[2].out) >= 2
  /\ Len(out) = Len(runs[1].out) + Len(runs[2].out)

\* C4: for every configuration that passes validation, with or without
\* --wl-dist-len, the enumeration loop eventually terminates: main returns.
LoopTerminates == <> Terminated

\* the bucket sizes of the first k parts of a chain, multiplied
RECURSIVE RadixBelow(_, _, _)
RadixBelow(buf, db, k) ==
  IF k = 0 THEN 1 ELSE Len(db[buf[k]].words) * RadixBelow(buf, db, k - 1)

\* digit i of local position p in the mixed radix of the chain, first part fastest
Digit(buf, db, i, p) == (p \div RadixBelow(buf, db, i - 1)) % Len(db[buf[i]].words)

\* C6: for every chain and local position p below its keyspace, elem_set_pwbuf
\* writes the concatenation over the parts i of word number digit_i of bucket
\* p_i, with digit_i = floor(p / product of the earlier bucket sizes) mod
\* |B_{p_i}|; for the words a, b, c and the chain (1,1) the positions 0..8 give
\* aa, ba, ca, ab, bb, cb, ac, bc, cc.
PwbufIsMixedRadix ==
  pc = "call" =>
    /\ \A r \in 1 .. Len(call.results) :
         call.results[r] =
           Flatten([ i \in 1 .. Len(call.buf) |->
                       db_entries[call.buf[i]].words[Digit(call.buf, db_entries, i, r - 1) + 1] ])
    /\ (stdin = << <<"a">>, <<"b">>, <<"c">> >> /\ call.buf = << 1, 1 >>
          /\ Len(call.results) = 9)
         => call.results = << <<"a", "a">>, <<"b", "a">>, <<"c", "a">>,
                              <<"a", "b">>, <<"b", "b">>, <<"c", "b">>,
                              <<"a", "c">>, <<"b", "c">>, <<"c", "c">> >>

\* the nine positions of the chain (1,1) over the words a, b, c have been written
PwbufIsMixedRadixWitness ==
  /\ pc = "call"
  /\ stdin = << <<"a">>, <<"b">>, <<"c">> >>
  /\ call.buf = << 1, 1 >>
  /\ Len(call.results) = 9

\* the states in which pw_orders has been filled and sorted
OrdersBuilt == pc \in { "seek", "while", "visit", "done" }

\* C7: after setup the visit order pw_orders[0 .. order_cnt-1] is a permutation
\* of [pw_min, pw_max] sorted ascending by the length priority: with
\* --wl-dist-len set, |B_n| is non-decreasing along the visit order.
LengthOrderAscending ==
  OrdersBuilt =>
    /\ Len(pw_orders) = order_cnt
    /\ { pw_orders[i].len : i \in 1 .. Len(pw_orders) } = pw_min .. pw_max
    /\ wl_dist_len =>
         \A i, j \in 1 .. Len(pw_orders) :
           i < j => Len(db_entries[pw_orders[i].len].words)
                      <= Len(db_entries[pw_orders[j].len].words)

\* C8: without --wl-dist-len the lengths are visited in ascending order of
\* their value in the built-in reference table, whatever the numbers of loaded
\* words are (length 1, priority 15, before length 2, priority 56).
DefaultOrderByTable ==
  (OrdersBuilt /\ ~ wl_dist_len) =>
    \A i, j \in 1 .. Len(pw_orders) :
      i < j => WordlenDist(db_entries, FALSE)[pw_orders[i].len]
                 <= WordlenDist(db_entries, FALSE)[pw_orders[j].len]

\* the states in which the chains of every slot have been sorted
ChainsSorted == pc \in { "sort_orders", "seek", "while", "visit", "done" }

\* the split bitmask a chain of length n was generated from
GenIdx(n, buf) ==
  CHOOSE k \in 0 .. (2 ^ (n - 1) - 1) : elem_gen_with_idx(n - 1, k) = buf

\* C9: after the per-slot sort the chains of every slot are in non-decreasing
\* ks_cnt order, and chains with equal ks_cnt keep their generation order
\* (ascending split bitmask), so that the emitted sequence is determined by
\* the inputs.
SlotsSortedStable ==
  ChainsSorted =>
    \A n \in pw_min .. pw_max :
      \A i, j \in 1 .. Len(db_entries[n].elems) :
        i < j =>
          LET f1 == db_entries[n].elems[i]
              f2 == db_entries[n].elems[j]
          IN  /\ f1.ks_cnt <= f2.ks_cnt
              /\ f1.ks_cnt = f2.ks_cnt => GenIdx(n, f1.buf) < GenIdx(n, f2.buf)

\* the sum over the slots n in [pw_min, pw_max] and their retained chains of the
\* product of the bucket sizes of the chain's parts
RECURSIVE SumOfProducts(_)
SumOfProducts(n) ==
  IF n > pw_max THEN 0
  ELSE SumSeq([ e \in 1 .. Len(db_entries[n].elems) |->
                  RadixBelow(db_entries[n].elems[e].buf, db_entries,
                             Len(db_entries[n].elems[e].buf)) ])
         + SumOfProducts(n + 1)

\* C11: with --keyspace the run ends after printing exactly one number, the sum
\* over every retained chain of every slot in [pw_min, pw_max] of the product
\* of the bucket sizes of its parts; it pushes no candidate and never reaches
\* the skip/limit checks or the loop, whatever skip and limit are.
KeyspaceOnly ==
  /\ pc = "exit" => (keyspace /\ printed = << SumOfProducts(pw_min) >> /\ out = <<>>)
  /\ keyspace => (out = <<>> /\ pc \notin { "sort_elems", "sort_orders", "seek", "while",
                                            "visit", "done" })
  /\ ~ keyspace => printed = <<>>

\* a keyspace query that printed 3, with a skip and a limit that the
\* enumeration would have rejected
KeyspaceOnlyWitness ==
  /\ pc = "exit" /\ printed = << 3 >> /\ skip = 2 /\ limit = 2

\* the states after the skip/limit checks of a run whose options were accepted
Sought == OptionsOk /\ pc \in { "while", "visit", "done", "error" }

\* C12: a run is rejected by the skip/limit checks exactly when skip > total or
\* (limit > 0 and skip + limit > total), total being the sum of the chains'
\* keyspaces: skip + limit = total with limit > 0 is accepted and the loop runs
\* with the effective total skip + limit, and skip = total with limit = 0 is
\* accepted and pushes nothing.
SeekInclusive ==
  Sought =>
    LET total    == SetupTotal(db_entries, pw_min, pw_max)
        rejected == skip > total \/ (limit > 0 /\ skip + limit > total)
    IN  /\ (pc = "error") = rejected
        /\ (limit > 0 /\ skip + limit = total) => (pc # "error" /\ total_ks_cnt = skip + limit)
        /\ (pc # "error" /\ limit = 0) => total_ks_cnt = total
        /\ (skip = total /\ limit = 0) => (pc # "error" /\ out = <<>>)

\* a finished run with skip > 0, limit > 0 and skip + limit equal to the total
SeekInclusiveWitness ==
  /\ pc = "done" /\ skip > 0 /\ limit > 0
  /\ skip + limit = SetupTotal(db_entries, pw_min, pw_max)
  /\ Len(out) = limit

\* an option outside its range
OptionViolation ==
  \/ pw_min < 1 \/ pw_max < 1 \/ elem_cnt_min < 1 \/ elem_cnt_max < 1
  \/ pw_min > pw_max \/ elem_cnt_min > elem_cnt_max
  \/ pw_min < 1 \/ pw_max > 16

\* skip or skip + limit beyond the total keyspace, in the states where main is
\* past the point of the skip/limit checks or has returned after computing the total
SeekViolation ==
  /\ ~ OptionViolation
  /\ pc \in { "while", "visit", "done", "error", "exit" }
  /\ LET total == SetupTotal(db_entries, pw_min, pw_max)
     IN  skip > total \/ (limit > 0 /\ skip + limit > total)

\* C13 as stated: every configuration that violates a parameter constraint
\* (an option out of range, skip > total, or skip + limit > total with
\* limit > 0) ends in the error outcome before the loop starts and pushes
\* no candidate.
ViolationIsError ==
  /\ OptionViolation => (pc \in { "options", "error" } /\ out = <<>>)
  /\ SeekViolation => (pc = "error" /\ out = <<>>)

\* C13 amended: the same, the skip and limit constraints being checked only
\* in runs without --keyspace; a run with --keyspace returns 0 before those
\* checks and still pushes no candidate.
ViolationIsErrorUnlessKeyspace ==
  /\ OptionViolation => (pc \in { "options", "error" } /\ out = <<>>)
  /\ (SeekViolation /\ ~ keyspace) => (pc = "error" /\ out = <<>>)
  /\ (SeekViolation /\ keyspace) => (pc = "exit" /\ out = <<>>)

\* a run rejected for skip + limit > total although skip and limit are each
\* within the total
ViolationIsErrorUnlessKeyspaceWitness ==
  /\ pc = "error" /\ SeekViolation /\ ~ keyspace
  /\ skip > 0 /\ limit > 0
  /\ skip <= SetupTotal(db_entries, pw_min, pw_max)
  /\ limit <= SetupTotal(db_entries, pw_min, pw_max)

\* C14: when a write of buffered output to the sink has failed, the run is in
\* the error outcome: it does not go on enumerating, and it does not end
\* normally with candidates missing from the sink.
SinkFailureIsFatal ==
  fp.error => pc = "error"

\* a line without its trailing CR and LF bytes
RECURSIVE Strip(_)
Strip(line) ==
  IF line # <<>> /\ line[Len(line)] \in { CR, LF }
  THEN Strip(SubSeq(line, 1, Len(line) - 1))
  ELSE line

\* the lines of a text, stripped
StrippedLines(t) == [ i \in 1 .. Len(t) |-> Strip(t[i].body \o t[i].end) ]

\* C15: after loading, bucket k (1 <= k <= 16) holds exactly the input lines
\* whose length after stripping trailing CR/LF is k, in input order and with
\* duplicates kept; a line whose stripped length is 0 or above 16 adds no
\* word to any bucket, however long it is.
BucketsHoldLines ==
  pc = "elems" =>
    \A k \in Lens :
      db_entries[k].words = SelectSeq(StrippedLines(call.text), LAMBDA w : Len(w) = k)

\* the smallest of three numbers
Min3(a, b, c) == CHOOSE m \in { a, b, c } : m <= a /\ m <= b /\ m <= c

\* the length priority of the component design: |B_n| with --wl-dist-len, the
\* reference table otherwise
LengthPriority(n) ==
  IF wl_dist_len THEN Len(db_entries[n].words)
  ELSE IF n < 25 THEN DEF_WORDLEN_DIST[n + 1] ELSE 1

\* C16: a visit of a length n whose slot is not exhausted consumes exactly
\* min(ks_cnt(C) - ks_pos(C), length_priority[n], total_ks_cnt - total_ks_pos)
\* global positions, C being the active chain of the slot, and the positions
\* consumed are the consecutive local positions ks_pos(C), ks_pos(C) + 1, ...
\* of that one chain: every candidate pushed in the visit is of that chain, at
\* the local position matching its global position, and no other slot moves.
BatchIsMinAction ==
  (pc = "visit" /\ db_entries[pw_orders[order_pos + 1].len].elems_pos
                    < Len(db_entries[pw_orders[order_pos + 1].len].elems)) =>
    LET n        == pw_orders[order_pos + 1].len
        e        == db_entries[n].elems_pos
        C        == db_entries[n].elems[e + 1]
        consumed == Min3(C.ks_cnt - C.ks_pos, LengthPriority(n), total_ks_cnt - total_ks_pos)
        pushed   == SubSeq(out', Len(out) + 1, Len(out'))
    IN  /\ total_ks_pos' - total_ks_pos = consumed
        /\ Len(pushed) = Cardinality({ q \in total_ks_pos .. (total_ks_pos' - 1) : q >= skip })
        /\ \A i \in 1 .. Len(pushed) :
             /\ pushed[i].len = n /\ pushed[i].elem = e
             /\ pushed[i].pos \in total_ks_pos .. (total_ks_pos' - 1)
             /\ pushed[i].ks = C.ks_pos + (pushed[i].pos - total_ks_pos)
             /\ i > 1 => pushed[i].pos = pushed[i - 1].pos + 1
        /\ \A m \in Lens : m # n => db_entries'[m] = db_entries[m]
        /\ \A i \in 1 .. Len(db_entries[n].elems) :
             i # e + 1 => db_entries'[n].elems[i] = db_entries[n].elems[i]

BatchIsMin == [][BatchIsMinAction]_vars

\* with --wl-dist-len, a chain drawn in part: the batch was capped by |B_n|
BatchIsMinWitness ==
  /\ pc \in { "visit", "while" } /\ wl_dist_len
  /\ \E n \in pw_min .. pw_max :
       /\ db_entries[n].elems_pos < Len(db_entries[n].elems)
       /\ db_entries[n].elems[db_entries[n].elems_pos + 1].ks_pos > 0
       /\ Len(out) > 1

\* C17: in a round that starts with total_ks_pos < total_ks_cnt, the visit of
\* a length whose slot still has an unfinished chain advances the global
\* cursor by at least one position (a visit takes place only while the cursor
\* is below the total: line 837 leaves the round when it reaches it).
NoLengthStarvedAction ==
  (pc = "visit" /\ db_entries[pw_orders[order_pos + 1].len].elems_pos
                    < Len(db_entries[pw_orders[order_pos + 1].len].elems))
    => (total_ks_pos < total_ks_cnt /\ total_ks_pos' > total_ks_pos)

NoLengthStarved == [][NoLengthStarvedAction]_vars

\* C18: at the end of every per-length visit every chain has
\* 0 <= ks_pos < ks_cnt and every slot has 0 <= elems_pos <= elems_cnt; the
\* visited slot's elems_pos is incremented (by one) exactly when the active
\* chain's ks_pos reached ks_cnt in the visit, that chain's ks_pos being then
\* 0 and otherwise its old value plus the positions consumed; and no
\* elems_pos decreases.
LocalCursorsAction ==
  pc = "visit" =>
    LET n        == pw_orders[order_pos + 1].len
        e        == db_entries[n].elems_pos
        active   == e < Len(db_entries[n].elems)
        consumed == total_ks_pos' - total_ks_pos
    IN  /\ \A m \in Lens :
             /\ 0 <= db_entries'[m].elems_pos
             /\ db_entries'[m].elems_pos <= Len(db_entries'[m].elems)
             /\ db_entries'[m].elems_pos >= db_entries[m].elems_pos
             /\ m # n => db_entries'[m].elems_pos = db_entries[m].elems_pos
             /\ \A i \in 1 .. Len(db_entries'[m].elems) :
                  /\ 0 <= db_entries'[m].elems[i].ks_pos
                  /\ db_entries'[m].elems[i].ks_pos < db_entries'[m].elems[i].ks_cnt
        /\ ~ active => db_entries'[n].elems_pos = e
        /\ active =>
             LET C       == db_entries[n].elems[e + 1]
                 reached == C.ks_pos + consumed = C.ks_cnt
             IN  /\ db_entries'[n].elems_pos = IF reached THEN e + 1 ELSE e
                 /\ db_entries'[n].elems[e + 1].ks_pos
                      = IF reached THEN 0 ELSE C.ks_pos + consumed

LocalCursors == [][LocalCursorsAction]_vars

\* a slot that finished one chain and has drawn a part of the next one
LocalCursorsWitness ==
  /\ pc \in { "visit", "while" }
  /\ \E n \in pw_min .. pw_max :
       /\ db_entries[n].elems_pos >= 1
       /\ db_entries[n].elems_pos < Len(db_entries[n].elems)
       /\ db_entries[n].elems[db_entries[n].elems_pos + 1].ks_pos > 0

\* the positions a slot has consumed according to its local cursors: the
\* keyspaces of the chains before elems_pos and the ks_pos of the chain at elems_pos
SlotWork(entry) ==
  SumSeq([ i \in 1 .. Len(entry.elems) |->
             IF i - 1 < entry.elems_pos THEN entry.elems[i].ks_cnt
             ELSE IF i - 1 = entry.elems_pos THEN entry.elems[i].ks_pos
             ELSE 0 ])

\* the same, summed over all slots
RECURSIVE Work(_, _)
Work(db, n) == IF n > IN_LEN_MAX THEN 0 ELSE SlotWork(db[n]) + Work(db, n + 1)

\* C19: at the end of every per-length visit total_ks_pos equals the sum over
\* the slots of the keyspaces of the chains before elems_pos plus the ks_pos
\* of the chain at elems_pos, 0 <= total_ks_pos <= total_ks_cnt, and
\* total_ks_pos did not decrease.
GlobalCursorAction ==
  pc = "visit" =>
    /\ total_ks_pos' = Work(db_entries', IN_LEN_MIN)
    /\ 0 <= total_ks_pos' /\ total_ks_pos' <= total_ks_cnt'
    /\ total_ks_pos' >= total_ks_pos

GlobalCursor == [][GlobalCursorAction]_vars

\* three slots have consumed positions, one of them with a finished chain, in
\* a run with a skip
GlobalCursorWitness ==
  /\ pc \in { "visit", "while", "done" } /\ skip > 0
  /\ \E n, m \in pw_min .. pw_max :
       /\ n # m
       /\ db_entries[n].elems_pos >= 1
       /\ SlotWork(db_entries[m]) > 0
       /\ total_ks_pos > SlotWork(db_entries[n]) + SlotWork(db_entries[m])

\* the bucket index (0-based) of a word: the first place it is stored at
IndexOf(words, w) == Least({ i \in 1 .. Len(words) : words[i] = w }) - 1

\* back-decoding a candidate against the bucket tables: part by part, the
\* bucket index of the part's word times the product of the earlier bucket sizes
RECURSIVE Decode(_, _, _, _)
Decode(buf, db, i, cand) ==
  IF i > Len(buf) THEN 0
  ELSE IndexOf(db[buf[i]].words, SubSeq(cand, 1, buf[i])) * RadixBelow(buf, db, i - 1)
         + Decode(buf, db, i + 1, SubSeq(cand, buf[i] + 1, Len(cand)))

\* the back-decoding of every materialized position gives the position, and
\* no two positions gave the same candidate
RoundTrips ==
  /\ \A r \in 1 .. Len(call.results) :
       Decode(call.buf, db_entries, 1, call.results[r]) = r - 1
  /\ \A r1, r2 \in 1 .. Len(call.results) :
       r1 # r2 => call.results[r1] # call.results[r2]

\* C20 as stated: for every chain C and every p below ks_cnt(C), decoding the
\* candidate materialized from (C, p) against the bucket tables yields p, and
\* two distinct positions never materialize the same candidate, for every
\* word list, repeated lines included.
RoundTrip ==
  pc = "call" => RoundTrips

\* no bucket of a part of the chain holds the same word twice
DistinctWords ==
  \A i \in 1 .. Len(call.buf) :
    \A a, b \in 1 .. Len(db_entries[call.buf[i]].words) :
      a # b => db_entries[call.buf[i]].words[a] # db_entries[call.buf[i]].words[b]

\* C20 amended: the same for every chain whose parts' buckets hold no word
\* twice (lines are not deduplicated, and a repeated line gives two positions
\* the same candidate).
RoundTripDistinctWords ==
  (pc = "call" /\ DistinctWords) => RoundTrips

\* all the positions of the chain (1,2) over two different one-byte words and
\* the two-byte words of the list
RoundTripDistinctWordsWitness ==
  /\ pc = "call"
  /\ DistinctWords
  /\ call.buf = << 1, 2 >>
  /\ Len(db_entries[1].words) = 2
  /\ Len(call.results) = 2 * Len(db_entries[2].words)
  /\ Len(call.results) >= 2

\* C21: for any sequence of out_push calls of at most 17 bytes each and
\* out_flush calls, out->len never exceeds BUFSIZ (not even inside out_push,
\* before its flush), the bytes handed to the sink followed by the bytes
\* still buffered are exactly the pushed bytes in push order, and the buffer
\* is empty after the out_flush that ends a batch.
BufferedWriter ==
  pc = "out" =>
    /\ Len(call.buf) <= BUFSIZ /\ call.peak <= BUFSIZ
    /\ Len(call.buf) < BUFSIZ - 100
    /\ fp.written \o call.buf = call.pushed
    /\ call.last = "flush" => (call.buf = <<>> /\ fp.written = call.pushed)

\* a longest push took the buffer over the threshold of line 235 and out_push
\* flushed it, and a later push is buffered behind it
BufferedWriterWitness ==
  /\ pc = "out" /\ call.last = "push"
  /\ call.peak >= BUFSIZ - 100 + PushMax - 1
  /\ fp.written # <<>>
  /\ call.buf # <<>>

====
